---- MODULE Spec2Model ----
(***************************************************************************)
(* vidsteps: the playback loop of play_clip (audio/video drift correction, *)
(* pause, repeat) and the step navigation of main (recording mode, then    *)
(* segment by segment playback), src/vidsteps/__main__.py.                  *)
(*                                                                         *)
(* Times.  A step timestamp is frame_idx / fps seconds.  The model keeps   *)
(* it as the number of frame intervals (the numerator over Fps), so that   *)
(* int(video.duration) seconds is Fps * (VideoFrames \div Fps) intervals.  *)
(* The clock is in milliseconds; ticks are multiples of TickUnit.          *)
(* video.subclip is library code: it raises as the ClipSource contract of  *)
(* the specification says (InvalidRange).                                  *)
(***************************************************************************)
EXTENDS Integers, Sequences, FiniteSets, TLC

\* ---------------------------------------------------------------- bounds
VideoFrames == 3      \* frames of the whole video (duration = VideoFrames / Fps)
MaxSteps == 2         \* longest step list the model records
MaxEvents == 2        \* most events one pygame.event.get() returns
MaxTickUnits == 6     \* longest clock tick, in TickUnit

\* ------------------------------------------------------ program constants
Fps == 2
ms_per_frame == 1000 \div Fps
TickUnit == ms_per_frame \div 2
Ticks == {TickUnit * k : k \in 1..MaxTickUnits}

VideoPath == "video"
OtherPath == "other"
Paths == {VideoPath, OtherPath}

\* int(video.duration), in frame intervals
IntDuration == Fps * (VideoFrames \div Fps)

Keys == {"Quit", "P", "Mark", "Right", "Left", "Zero"}

RECURSIVE SeqsUpTo(_, _)
SeqsUpTo(S, n) ==
    IF n = 0 THEN {<<>>}
    ELSE LET shorter == SeqsUpTo(S, n - 1)
         IN shorter \cup {Append(q, x) : q \in shorter, x \in S}

EventQueues == SeqsUpTo(Keys, MaxEvents)

\* pygame.event.get() returns every queued event: a queued QUIT is among them
HasQuit(events) == \E k \in 1..Len(events) : events[k] = "Quit"

IsNonDecreasing(q) == \A a \in 1..Len(q), b \in 1..Len(q) : a <= b => q[a] <= q[b]

\* the step lists a recording pass over this video can have produced
StepLists == {q \in SeqsUpTo(0..(VideoFrames - 1), MaxSteps) : IsNonDecreasing(q)}

\* --------------------------------------------------- database access layer
\* json.dumps of a list: "[", the numbers separated by ",", "]"
Tok(k, v) == [kind |-> k, val |-> v]

RECURSIVE JsonItems(_)
JsonItems(ts) ==
    IF Len(ts) = 0 THEN <<>>
    ELSE IF Len(ts) = 1 THEN <<Tok("num", ts[1])>>
    ELSE <<Tok("num", ts[1]), Tok(",", 0)>> \o JsonItems(Tail(ts))

JsonDumps(ts) == <<Tok("[", 0)>> \o JsonItems(ts) \o <<Tok("]", 0)>>

RECURSIVE JsonNumbers(_)
JsonNumbers(toks) ==
    IF Len(toks) = 0 THEN <<>>
    ELSE IF Head(toks).kind = "num" THEN <<Head(toks).val>> \o JsonNumbers(Tail(toks))
    ELSE JsonNumbers(Tail(toks))

JsonLoads(blob) == JsonNumbers(SubSeq(blob, 2, Len(blob) - 1))

\* an INSERT that leaves an existing row alone (no DO UPDATE)
set_timestamps_insert_only(tbl, video_path, timestamps) ==
    IF \E r \in tbl : r.path = video_path THEN tbl
    ELSE tbl \cup {[path |-> video_path, timestamps |-> JsonDumps(timestamps)]}

\* INSERT ... ON CONFLICT (path) DO UPDATE SET timestamps = excluded.timestamps
set_timestamps_for_video(tbl, video_path, timestamps) ==
    {r \in tbl : r.path # video_path}
        \cup {[path |-> video_path, timestamps |-> JsonDumps(timestamps)]}

\* SELECT timestamps ... WHERE path = ?; StopIteration gives []
get_timestamps_for_video(tbl, video_path) ==
    LET rows == {r \in tbl : r.path = video_path}
    IN IF rows = {} THEN <<>>
       ELSE JsonLoads((CHOOSE r \in rows : TRUE).timestamps)

\* ------------------------------------------------------------ input handlers
\* record_event_func: the events of one poll, in order
record_event_func(events, steps, frame_idx, paused_in) ==
    LET F[k \in 0..Len(events)] ==
            IF k = 0
            THEN [running |-> TRUE, paused |-> paused_in,
                  step_delta |-> "None", steps |-> steps]
            ELSE LET s == F[k - 1]
                     e == events[k]
                 IN CASE e = "Quit" -> [s EXCEPT !.running = FALSE]
                      [] e = "P"    -> [s EXCEPT !.paused = ~s.paused]
                      [] e = "Mark" -> [s EXCEPT !.steps = Append(s.steps, frame_idx)]
                      [] OTHER      -> s
    IN F[Len(events)]

\* a playback handler whose SPACE/RETURN branch still records the step
play_event_func_marking(events, steps, frame_idx, paused_in) ==
    LET F[k \in 0..Len(events)] ==
            IF k = 0
            THEN [running |-> TRUE, paused |-> paused_in,
                  step_delta |-> "None", steps |-> steps]
            ELSE LET s == F[k - 1]
                     e == events[k]
                 IN CASE e = "Quit"  -> [s EXCEPT !.running = FALSE]
                      [] e = "Mark"  -> [s EXCEPT !.step_delta = "Plus1",
                                                  !.steps = Append(s.steps, frame_idx)]
                      [] e = "Right" -> [s EXCEPT !.step_delta = "Plus1"]
                      [] e = "Left"  -> [s EXCEPT !.step_delta = "Minus1"]
                      [] e = "P"     -> [s EXCEPT !.paused = ~s.paused]
                      [] e = "Zero"  -> [s EXCEPT !.step_delta = "Zero"]
                      [] OTHER       -> s
    IN F[Len(events)]

\* play_event_func: the events of one poll, in order
play_event_func(events, steps, frame_idx, paused_in) ==
    LET F[k \in 0..Len(events)] ==
            IF k = 0
            THEN [running |-> TRUE, paused |-> paused_in,
                  step_delta |-> "None", steps |-> steps]
            ELSE LET s == F[k - 1]
                     e == events[k]
                 IN CASE e = "Quit"  -> [s EXCEPT !.running = FALSE]
                      [] e \in {"Mark", "Right"} -> [s EXCEPT !.step_delta = "Plus1"]
                      [] e = "Left"  -> [s EXCEPT !.step_delta = "Minus1"]
                      [] e = "P"     -> [s EXCEPT !.paused = ~s.paused]
                      [] e = "Zero"  -> [s EXCEPT !.step_delta = "Zero"]
                      [] OTHER       -> s
    IN F[Len(events)]

event_func(m, events, steps, frame_idx, paused_in) ==
    IF m = "record" THEN record_event_func(events, steps, frame_idx, paused_in)
    ELSE play_event_func(events, steps, frame_idx, paused_in)

\* ------------------------------------------------------- play_clip's tests
\* a drop test that also drops at exactly one frame interval
ShouldDropAtInterval(delay) == delay >= ms_per_frame

\* line 123: the frame is dropped
ShouldDrop(delay) == delay > ms_per_frame

\* a wait test that lets the video run two intervals ahead
ShouldWaitLate(delay) == delay < -2 * ms_per_frame

\* line 127: the frame waits for the audio
ShouldWait(delay) == delay < -1 * ms_per_frame

\* line 139: the paused loop goes on
PausedLoopCond(p, r) == p /\ r

\* a break test that looks at the delta only
BreakOnDeltaOnly(r, delta) == delta # "None"

\* line 145: the frame loop breaks
BreakCond(r, delta) == ~r \/ delta # "None"

\* a return test that forgets "not repeat"
PassReturnsIgnoringRepeat(rep, r, delta) == ~r \/ delta \in {"Minus1", "Plus1"}

\* a return test that also returns on a restart
PassReturnsOnRestart(rep, r, delta) ==
    ~rep \/ ~r \/ delta \in {"Minus1", "Zero", "Plus1"}

\* line 150: the clip is not played again
PassReturns(rep, r, delta) == ~rep \/ ~r \/ delta \in {"Minus1", "Plus1"}

\* ------------------------------------------------------------ main's tests
\* "step_delta or 1": no request moves on
DeltaOrOne(delta) ==
    CASE delta = "Plus1"  -> 1
      [] delta = "Minus1" -> -1
      [] OTHER            -> 1

\* the two directions exchanged
DeltaSwapped(delta) ==
    CASE delta = "Plus1"  -> -1
      [] delta = "Minus1" -> 1
      [] OTHER            -> 0

\* line 263: step_delta or 0
DeltaOrZero(delta) ==
    CASE delta = "Plus1"  -> 1
      [] delta = "Minus1" -> -1
      [] OTHER            -> 0

\* no clamp at all
ClampNone(idx) == idx

\* line 264
Clamp(idx) == IF idx > 0 THEN idx ELSE 0

\* a while test that forgets "running"
LoopCondIgnoringRunning(r, idx, steps) == idx < Len(steps)

\* line 222
LoopCond(r, idx, steps) == r /\ idx < Len(steps)

\* lines 224-225 (step_idx counts from 0)
SegmentStart(steps, idx) == steps[idx + 1]
SegmentEnd(steps, idx) ==
    IF idx + 1 < Len(steps) THEN steps[idx + 2] ELSE IntDuration

\* video.subclip(start, end) raises ValueError (ClipSource contract)
InvalidRange(start, end) == start >= VideoFrames \/ end <= start

NoAcc == [before |-> 0, elapsed |-> 0, drops |-> 0]

VARIABLES
    table,                    \* rows of video_timestamps
    step_timestamps,          \* main: the step list
    running,                  \* main: running
    step_idx,                 \* main: step_idx
    clip_start, clip_end,     \* main: the segment of the current clip
    mode,                     \* "record" or "play": which handlers play_clip got
                              \* ("none" before line 189)
    pc,                       \* position in main / play_clip
    nframes,                  \* frames of the clip being played
    repeat,                   \* play_clip: repeat
    clip_running,             \* play_clip: running
    paused, was_paused,       \* play_clip: paused, was_paused
    step_delta,               \* play_clip: step_delta ("Unbound" before the first poll)
    current_video_delay_ms,   \* play_clip: the drift
    i,                        \* play_clip: index of the frame at hand
    music,                    \* pygame.mixer.music: "idle", "playing", "paused"
    passes,                   \* passes started by this call of play_clip: 0, 1,
                              \* or 2 for more than one
    waited,                   \* last tick of the wait loop for this frame, 0 if none
    acc,                      \* the last line-148 accumulation of this pass (drift
                              \* before it, tick) and the frames dropped since it,
                              \* or since the pass began
    screen,                   \* index of the frame on the screen, -1 after screen.fill
    writes,                   \* calls of set_timestamps_for_video in this session
    pygame_up,                \* pygame is initialised (lines 179-180) and not yet quit
    quit_queued,              \* a QUIT event waits in the pygame event queue
    set_path, set_list        \* arguments of the last set_timestamps_for_video call
                              \* ("none" and <<>> before the first)

vars == <<table, step_timestamps, running, step_idx, clip_start, clip_end, mode,
          pc, nframes, repeat, clip_running, paused, was_paused, step_delta,
          current_video_delay_ms, i, music, passes, waited, acc,
          screen, writes, pygame_up, quit_queued, set_path, set_list>>

mainVars == <<table, step_timestamps, running, step_idx, clip_start, clip_end, mode>>
clipVars == <<nframes, repeat, clip_running, paused, was_paused, step_delta,
              current_video_delay_ms, i, music, passes, waited, acc>>

\* the tables a session with --record starts from: no row, or one row that the
\* recording is going to replace
RecordStored == {{}, set_timestamps_for_video({}, VideoPath, <<0>>)}

\* lines 169-187: the state when main reaches line 189
Init ==
    /\ \E stored \in {{}} \cup {set_timestamps_for_video({}, VideoPath, L) : L \in StepLists},
          record \in BOOLEAN :
          /\ record => stored \in RecordStored
          /\ table = stored
          /\ step_timestamps = IF record THEN <<>>
                               ELSE get_timestamps_for_video(stored, VideoPath)
    /\ running = TRUE
    /\ step_idx = 0
    /\ clip_start = 0
    /\ clip_end = 0
    /\ mode = "none"
    /\ pc = "main"
    /\ nframes = 0
    /\ repeat = FALSE
    /\ clip_running = TRUE
    /\ paused = FALSE
    /\ was_paused = FALSE
    /\ step_delta = "Unbound"
    /\ current_video_delay_ms = 0
    /\ i = 0
    /\ music = "idle"
    /\ passes = 0
    /\ waited = 0
    /\ acc = NoAcc
    /\ screen = -1
    /\ writes = 0
    /\ pygame_up = TRUE
    /\ quit_queued = FALSE
    /\ set_path = "none"
    /\ set_list = <<>>

\* lines 189-214: record steps mode calls play_clip(video, repeat=False)
StartRecording ==
    /\ pc = "main"
    /\ Len(step_timestamps) = 0
    /\ mode' = "record"
    /\ nframes' = VideoFrames
    /\ repeat' = FALSE
    /\ pc' = "load_audio"
    /\ UNCHANGED <<table, step_timestamps, running, step_idx, clip_start, clip_end>>
    /\ UNCHANGED <<clip_running, paused, was_paused, step_delta,
                   current_video_delay_ms, i, music, passes, waited, acc>>
    /\ UNCHANGED <<screen, writes, pygame_up, quit_queued>>
    /\ UNCHANGED <<set_path, set_list>>

\* lines 189, 221: a stored step list goes straight to play steps mode
SkipRecording ==
    /\ pc = "main"
    /\ Len(step_timestamps) # 0
    /\ mode' = "play"
    /\ step_idx' = 0
    /\ pc' = "nav"
    /\ UNCHANGED <<table, step_timestamps, running, clip_start, clip_end>>
    /\ UNCHANGED clipVars
    /\ UNCHANGED <<screen, writes, pygame_up, quit_queued>>
    /\ UNCHANGED <<set_path, set_list>>

\* lines 93-104: play_clip begins: running is True, step_delta is not bound yet,
\* the audio is written and loaded, the drift starts at 0
LoadAudio ==
    /\ pc = "load_audio"
    /\ clip_running' = TRUE
    /\ step_delta' = "Unbound"
    /\ passes' = 0
    /\ current_video_delay_ms' = 0
    /\ music' = "idle"
    /\ pc' = "pass_start"
    /\ UNCHANGED mainVars
    /\ UNCHANGED <<nframes, repeat, paused, was_paused, i, waited, acc>>
    /\ UNCHANGED <<screen, writes, pygame_up, quit_queued>>
    /\ UNCHANGED <<set_path, set_list>>

\* lines 96-98: write_audiofile or music.load raises; nothing catches it
LoadAudioFails ==
    /\ pc = "load_audio"
    /\ pc' = "raised"
    /\ UNCHANGED mainVars
    /\ UNCHANGED clipVars
    /\ UNCHANGED <<screen, writes, pygame_up, quit_queued>>
    /\ UNCHANGED <<set_path, set_list>>

\* lines 106-119: a pass starts: fresh frame generator, first frame, music.play
StartPass ==
    /\ pc = "pass_start"
    /\ i' = 0
    /\ music' = "playing"
    /\ passes' = IF passes = 0 THEN 1 ELSE 2
    /\ waited' = 0
    /\ acc' = NoAcc
    /\ pc' = IF nframes > 0 THEN "frame" ELSE "raised"
    /\ UNCHANGED mainVars
    /\ UNCHANGED <<nframes, repeat, clip_running, paused, was_paused, step_delta,
                   current_video_delay_ms>>
    /\ screen' = -1
    /\ UNCHANGED <<writes, pygame_up, quit_queued>>
    /\ UNCHANGED <<set_path, set_list>>

\* lines 121-127: the for loop takes the next frame and drops, waits or renders
NextFrame ==
    /\ pc = "frame"
    /\ IF i >= nframes
       THEN /\ pc' = "pass_end"
            /\ UNCHANGED <<current_video_delay_ms, i, acc, waited>>
       ELSE IF ShouldDrop(current_video_delay_ms)
       THEN /\ current_video_delay_ms' = current_video_delay_ms - ms_per_frame
            /\ i' = i + 1
            /\ acc' = [acc EXCEPT !.drops = @ + 1]
            /\ pc' = "frame"
            /\ UNCHANGED waited
       ELSE /\ pc' = IF ShouldWait(current_video_delay_ms) THEN "wait" ELSE "render"
            /\ waited' = 0
            /\ UNCHANGED <<current_video_delay_ms, i, acc>>
    /\ UNCHANGED mainVars
    /\ UNCHANGED <<nframes, repeat, clip_running, paused, was_paused, step_delta,
                   music, passes>>
    /\ UNCHANGED <<screen, writes, pygame_up, quit_queued>>
    /\ UNCHANGED <<set_path, set_list>>

\* lines 127-128: one tick of the wait loop
WaitTick ==
    /\ pc = "wait"
    /\ \E t \in Ticks :
          /\ current_video_delay_ms' = current_video_delay_ms + t
          /\ waited' = t
          /\ pc' = IF ShouldWait(current_video_delay_ms + t) THEN "wait" ELSE "render"
    /\ UNCHANGED mainVars
    /\ UNCHANGED <<nframes, repeat, clip_running, paused, was_paused, step_delta,
                   i, music, passes, acc>>
    /\ UNCHANGED <<screen, writes, pygame_up, quit_queued>>
    /\ UNCHANGED <<set_path, set_list>>

\* lines 130-138: the frame is rendered and the input polled once
RenderAndPoll ==
    /\ pc = "render"
    /\ \E events \in EventQueues :
          LET r == event_func(mode, events, step_timestamps, i, FALSE)
          IN /\ quit_queued => HasQuit(events)
             /\ Len(r.steps) <= MaxSteps
             /\ step_timestamps' = r.steps
             /\ clip_running' = r.running
             /\ paused' = r.paused
             /\ step_delta' = r.step_delta
             /\ was_paused' = r.paused
             /\ music' = IF r.paused THEN "paused" ELSE music
             /\ pc' = IF PausedLoopCond(r.paused, r.running) THEN "paused"
                      ELSE "after_poll"
    /\ UNCHANGED <<table, running, step_idx, clip_start, clip_end, mode>>
    /\ UNCHANGED <<nframes, repeat, current_video_delay_ms, i, passes, waited, acc>>
    /\ screen' = i
    /\ quit_queued' = FALSE
    /\ UNCHANGED <<writes, pygame_up>>
    /\ UNCHANGED <<set_path, set_list>>

\* a paused loop that adds its clock ticks to the drift
PausedPollCountingTicks ==
    /\ pc = "paused"
    /\ \E events \in EventQueues, t \in Ticks :
          LET r == event_func(mode, events, step_timestamps, i, TRUE)
          IN /\ quit_queued => HasQuit(events)
             /\ Len(r.steps) <= MaxSteps
             /\ step_timestamps' = r.steps
             /\ clip_running' = r.running
             /\ paused' = r.paused
             /\ step_delta' = r.step_delta
             /\ current_video_delay_ms' = current_video_delay_ms + t
             /\ pc' = IF PausedLoopCond(r.paused, r.running) THEN "paused"
                      ELSE "after_poll"
    /\ UNCHANGED <<table, running, step_idx, clip_start, clip_end, mode>>
    /\ UNCHANGED <<nframes, repeat, was_paused, i, music,
                   passes, waited, acc>>
    /\ quit_queued' = FALSE
    /\ UNCHANGED <<screen, writes, pygame_up>>
    /\ UNCHANGED <<set_path, set_list>>

\* lines 139-141: one round of the paused loop (its clock tick is not used)
PausedPoll ==
    /\ pc = "paused"
    /\ \E events \in EventQueues :
          LET r == event_func(mode, events, step_timestamps, i, TRUE)
          IN /\ quit_queued => HasQuit(events)
             /\ Len(r.steps) <= MaxSteps
             /\ step_timestamps' = r.steps
             /\ clip_running' = r.running
             /\ paused' = r.paused
             /\ step_delta' = r.step_delta
             /\ pc' = IF PausedLoopCond(r.paused, r.running) THEN "paused"
                      ELSE "after_poll"
    /\ UNCHANGED <<table, running, step_idx, clip_start, clip_end, mode>>
    /\ UNCHANGED <<nframes, repeat, was_paused, current_video_delay_ms, i, music,
                   passes, waited, acc>>
    /\ quit_queued' = FALSE
    /\ UNCHANGED <<screen, writes, pygame_up>>
    /\ UNCHANGED <<set_path, set_list>>

\* lines 142-148: unpause the music, then break or account for the frame's time
AfterPoll ==
    /\ pc = "after_poll"
    /\ music' = IF was_paused THEN "playing" ELSE music
    /\ IF BreakCond(clip_running, step_delta)
       THEN /\ pc' = "pass_end"
            /\ UNCHANGED <<current_video_delay_ms, i, acc>>
       ELSE \E t \in Ticks :
            /\ current_video_delay_ms' = current_video_delay_ms + t - ms_per_frame
            /\ acc' = [before |-> current_video_delay_ms, elapsed |-> t, drops |-> 0]
            /\ i' = i + 1
            /\ pc' = "frame"
    /\ UNCHANGED mainVars
    /\ UNCHANGED <<nframes, repeat, clip_running, paused, was_paused, step_delta,
                   passes, waited>>
    /\ UNCHANGED <<screen, writes, pygame_up, quit_queued>>
    /\ UNCHANGED <<set_path, set_list>>

\* line 150: after the frame loop, return or play the clip again
PassEnd ==
    /\ pc = "pass_end"
    /\ pc' = IF step_delta = "Unbound" THEN "raised"
             ELSE IF PassReturns(repeat, clip_running, step_delta) THEN "return"
             ELSE "pass_start"
    /\ UNCHANGED mainVars
    /\ UNCHANGED clipVars
    /\ UNCHANGED <<screen, writes, pygame_up, quit_queued>>
    /\ UNCHANGED <<set_path, set_list>>

\* a return from recording that saves the step list only when still running
RecordReturnOnlyIfRunning ==
    /\ pc = "return"
    /\ mode = "record"
    /\ running' = clip_running
    /\ table' = IF clip_running
                THEN set_timestamps_for_video(table, VideoPath, step_timestamps)
                ELSE table
    /\ writes' = IF clip_running THEN writes + 1 ELSE writes
    /\ step_idx' = 0
    /\ mode' = "play"
    /\ pc' = "nav"
    /\ UNCHANGED <<step_timestamps, clip_start, clip_end>>
    /\ UNCHANGED clipVars
    /\ UNCHANGED <<screen, pygame_up, quit_queued>>
    /\ set_path' = IF clip_running THEN VideoPath ELSE set_path
    /\ set_list' = IF clip_running THEN step_timestamps ELSE set_list

\* lines 214-221: recording returned: running is kept, the step list is saved
RecordReturn ==
    /\ pc = "return"
    /\ mode = "record"
    /\ running' = clip_running
    /\ table' = set_timestamps_for_video(table, VideoPath, step_timestamps)
    /\ step_idx' = 0
    /\ mode' = "play"
    /\ pc' = "nav"
    /\ UNCHANGED <<step_timestamps, clip_start, clip_end>>
    /\ UNCHANGED clipVars
    /\ writes' = writes + 1
    /\ UNCHANGED <<screen, pygame_up, quit_queued>>
    /\ set_path' = VideoPath
    /\ set_list' = step_timestamps

\* lines 262-264: a playback clip returned: the index moves and is clamped
PlayReturn ==
    /\ pc = "return"
    /\ mode = "play"
    /\ running' = clip_running
    /\ step_idx' = Clamp(step_idx + DeltaOrZero(step_delta))
    /\ pc' = "nav"
    /\ UNCHANGED <<table, step_timestamps, clip_start, clip_end, mode>>
    /\ UNCHANGED clipVars
    /\ UNCHANGED <<screen, writes, pygame_up, quit_queued>>
    /\ UNCHANGED <<set_path, set_list>>

\* an except branch that only breaks, without running = False
NavigateBreakOnly ==
    /\ pc = "nav"
    /\ IF LoopCond(running, step_idx, step_timestamps)
       THEN LET start == SegmentStart(step_timestamps, step_idx)
                end == SegmentEnd(step_timestamps, step_idx)
            IN /\ clip_start' = start
               /\ clip_end' = end
               /\ IF InvalidRange(start, end)
                  THEN /\ running' = running
                       /\ pc' = "quit"
                       /\ UNCHANGED <<nframes, repeat>>
                  ELSE /\ nframes' = end - start
                       /\ repeat' = TRUE
                       /\ pc' = "load_audio"
                       /\ UNCHANGED running
       ELSE /\ pc' = "quit"
            /\ UNCHANGED <<running, clip_start, clip_end, nframes, repeat>>
    /\ UNCHANGED <<table, step_timestamps, step_idx, mode>>
    /\ UNCHANGED <<clip_running, paused, was_paused, step_delta,
                   current_video_delay_ms, i, music, passes, waited, acc>>
    /\ UNCHANGED <<screen, writes, pygame_up, quit_queued>>
    /\ UNCHANGED <<set_path, set_list>>

\* lines 222-262: the while test, the segment, subclip, the call of play_clip
Navigate ==
    /\ pc = "nav"
    /\ IF LoopCond(running, step_idx, step_timestamps)
       THEN LET start == SegmentStart(step_timestamps, step_idx)
                end == SegmentEnd(step_timestamps, step_idx)
            IN /\ clip_start' = start
               /\ clip_end' = end
               /\ IF InvalidRange(start, end)
                  THEN /\ running' = FALSE
                       /\ pc' = "quit"
                       /\ UNCHANGED <<nframes, repeat>>
                  ELSE /\ nframes' = end - start
                       /\ repeat' = TRUE
                       /\ pc' = "load_audio"
                       /\ UNCHANGED running
       ELSE /\ pc' = "quit"
            /\ UNCHANGED <<running, clip_start, clip_end, nframes, repeat>>
    /\ UNCHANGED <<table, step_timestamps, step_idx, mode>>
    /\ UNCHANGED <<clip_running, paused, was_paused, step_delta,
                   current_video_delay_ms, i, music, passes, waited, acc>>
    /\ UNCHANGED <<screen, writes, pygame_up, quit_queued>>
    /\ UNCHANGED <<set_path, set_list>>

\* line 266: pygame.quit()
Quit ==
    /\ pc = "quit"
    /\ music' = "idle"
    /\ pc' = "done"
    /\ UNCHANGED mainVars
    /\ UNCHANGED <<nframes, repeat, clip_running, paused, was_paused, step_delta,
                   current_video_delay_ms, i, passes, waited, acc>>
    /\ pygame_up' = FALSE
    /\ UNCHANGED <<screen, writes, quit_queued>>
    /\ UNCHANGED <<set_path, set_list>>

Next ==
    \/ StartRecording
    \/ SkipRecording
    \/ LoadAudio
    \/ LoadAudioFails
    \/ StartPass
    \/ NextFrame
    \/ WaitTick
    \/ RenderAndPoll
    \/ PausedPoll
    \/ AfterPoll
    \/ PassEnd
    \/ RecordReturn
    \/ PlayReturn
    \/ Navigate
    \/ Quit

\* the user closes the window or presses q: a QUIT event enters the event queue
PlaceQuit ==
    /\ pc \notin {"done", "raised"}
    /\ ~quit_queued
    /\ quit_queued' = TRUE
    /\ UNCHANGED mainVars
    /\ UNCHANGED clipVars
    /\ UNCHANGED <<pc, screen, writes, pygame_up, set_path, set_list>>

QuitNext == Next \/ PlaceQuit

\* the database access layer on its own: init_database, then any upserts
StoreInit ==
    /\ table = {}
    /\ step_timestamps = <<>>
    /\ running = TRUE
    /\ step_idx = 0
    /\ clip_start = 0
    /\ clip_end = 0
    /\ mode = "none"
    /\ pc = "store"
    /\ nframes = 0
    /\ repeat = FALSE
    /\ clip_running = TRUE
    /\ paused = FALSE
    /\ was_paused = FALSE
    /\ step_delta = "Unbound"
    /\ current_video_delay_ms = 0
    /\ i = 0
    /\ music = "idle"
    /\ passes = 0
    /\ waited = 0
    /\ acc = NoAcc
    /\ screen = -1
    /\ writes = 0
    /\ pygame_up = FALSE
    /\ quit_queued = FALSE
    /\ set_path = "none"
    /\ set_list = <<>>

\* set_timestamps_for_video(cursor, video_path, timestamps)
StoreSet ==
    /\ pc = "store"
    /\ \E video_path \in Paths, timestamps \in StepLists :
          /\ table' = set_timestamps_for_video(table, video_path, timestamps)
          /\ set_path' = video_path
          /\ set_list' = timestamps
    /\ UNCHANGED <<step_timestamps, running, step_idx, clip_start, clip_end, mode>>
    /\ UNCHANGED clipVars
    /\ UNCHANGED <<pc, screen, writes, pygame_up, quit_queued>>

StoreNext == StoreSet

StoreSpec == StoreInit /\ [][StoreNext]_vars

\* the program takes its next step whenever it has one; the user is not obliged
\* to quit
FairQuitSpec == Init /\ [][QuitNext]_vars /\ WF_vars(Next)

Spec == Init /\ [][Next]_vars


\* ------------------------------------------------------------------ claims
NavDeltas == {"Minus1", "Zero", "Plus1"}

\* C1: in playback mode step_idx is never negative where the while test of
\* line 222 reads it or lines 224-225 index the step list with it.
C1_StepIdxNeverNegative == step_idx >= 0

\* a rewind at index 0 came back to the while test
C1_Witness ==
    pc = "nav" /\ mode = "play" /\ running /\ step_delta = "Minus1" /\ step_idx = 0

\* C2 (as claimed): every segment of the step list that recording mode is
\* building ends after it starts.
C2_RecordedSegmentEndsAfterStart ==
    mode = "record" =>
        \A k \in 0..(Len(step_timestamps) - 1) :
            SegmentEnd(step_timestamps, k) > SegmentStart(step_timestamps, k)

\* the line-148 accumulation of C3: drift 0, one tick of three frame intervals
C3_Scenario == acc.before = 0 /\ acc.elapsed = 3 * ms_per_frame

\* C3 (as claimed): after that accumulation the next rendered frame comes
\* after two dropped frames.
C3_TwoFramesDropped == (C3_Scenario /\ pc = "render") => acc.drops = 2

\* C3 (amended): the accumulation leaves the drift at two intervals, exactly one
\* frame is dropped, and the frame after it is rendered without a wait, with
\* the drift at one interval.
C3_OneFrameDropped ==
    C3_Scenario =>
        /\ acc.drops <= 1
        /\ (pc = "frame" /\ acc.drops = 0) => current_video_delay_ms = 2 * ms_per_frame
        /\ (pc = "frame" /\ acc.drops = 1) => current_video_delay_ms = ms_per_frame
        /\ pc # "wait"
        /\ pc = "render" =>
              /\ acc.drops = 1
              /\ waited = 0
              /\ current_video_delay_ms = ms_per_frame

\* the frame after the dropped one is being rendered
C3_Witness == C3_Scenario /\ pc = "render" /\ acc.drops = 1

\* C4 (as claimed): a frame is rendered with the drift within one frame
\* interval of 0.
C4_DriftInIntervalAtRender ==
    pc = "render" =>
        /\ current_video_delay_ms >= -1 * ms_per_frame
        /\ current_video_delay_ms <= ms_per_frame

\* C4 (amended): a frame is rendered with the drift at or above minus one
\* interval; the drift is at most plus one interval when the frame did not
\* wait, and after a wait it is below minus one interval plus the last tick.
\* A drop leaves the drift above 0.
C4_DriftAtRender ==
    /\ pc = "render" =>
          /\ current_video_delay_ms >= -1 * ms_per_frame
          /\ waited = 0 => current_video_delay_ms <= ms_per_frame
          /\ waited > 0 => current_video_delay_ms - waited < -1 * ms_per_frame
    /\ (pc = "frame" /\ acc.drops > 0) => current_video_delay_ms > 0

\* a wait whose last tick overshot: the frame is rendered above one interval
C4_Witness ==
    pc = "render" /\ waited > 0 /\ current_video_delay_ms > ms_per_frame

\* C5: a recording pass (repeat = false) whose frames run out without a quit
\* returns (running = true, delta = None) after exactly one pass, and the
\* return to main writes the step list to the table.
C5_NaturalEndWithoutRepeat ==
    [][ /\ (pc = "pass_end" /\ ~repeat /\ i = nframes) =>
              /\ clip_running
              /\ step_delta = "None"
              /\ passes = 1
              /\ pc' = "return"
        /\ (pc = "return" /\ mode = "record") =>
              /\ running' = clip_running
              /\ \E r \in table' : r.path = VideoPath
              /\ get_timestamps_for_video(table', VideoPath) = step_timestamps
       ]_vars

\* a recording with a mark ran to its last frame and was saved
C5_Witness ==
    /\ pc = "nav" /\ ~repeat /\ i = nframes /\ running /\ passes = 1
    /\ Len(step_timestamps) > 0
    /\ get_timestamps_for_video(table, VideoPath) = step_timestamps

\* a step that brings main to the while test with step_idx = len(step_timestamps)
C6_ReachesEnd ==
    pc # "nav" /\ pc' = "nav" /\ step_idx' = Len(step_timestamps')

C6_AdvanceFromLast ==
    /\ mode = "play"
    /\ step_delta = "Plus1"
    /\ step_idx = Len(step_timestamps) - 1

\* C6 (as claimed): step_idx never exceeds len(StepList), reaches it only by an
\* advance from the last index, and main then leaves the loop without a clip.
C6_EndOnlyByAdvance ==
    /\ [](mode = "play" => step_idx <= Len(step_timestamps))
    /\ [][ /\ C6_ReachesEnd => C6_AdvanceFromLast
           /\ (pc = "nav" /\ step_idx = Len(step_timestamps)) =>
                 (pc' = "quit" /\ running' = running)
         ]_vars

\* C6 (amended): as claimed, except that step_idx = len(StepList) = 0 also holds
\* at the start of playback mode when recording marked no step.
C6_EndByAdvanceOrEmpty ==
    /\ [](mode = "play" => step_idx <= Len(step_timestamps))
    /\ [][ /\ C6_ReachesEnd =>
                 \/ C6_AdvanceFromLast
                 \/ (mode = "record" /\ Len(step_timestamps) = 0 /\ step_idx' = 0)
           /\ (pc = "nav" /\ step_idx = Len(step_timestamps)) =>
                 (pc' = "quit" /\ running' = running)
         ]_vars

\* two advances over a list of two steps: the session ended at index 2, running
C6_Witness ==
    /\ pc = "done" /\ running /\ step_delta = "Plus1"
    /\ Len(step_timestamps) = 2 /\ step_idx = 2

\* C7: when play_clip returns to main at segment i with running = true, the
\* index becomes i+1 after an advance and max(i-1, 0) after a rewind, the next
\* clip is the segment at that index, and a rewind at index 0 plays the same
\* segment again.
C7_NavigationTransitions ==
    [][ /\ (pc = "return" /\ mode = "play" /\ clip_running) =>
              /\ step_delta = "Plus1" => step_idx' = step_idx + 1
              /\ step_delta = "Minus1" =>
                    step_idx' = IF step_idx >= 1 THEN step_idx - 1 ELSE 0
        /\ (pc = "nav" /\ pc' = "load_audio") =>
              /\ step_idx' = step_idx
              /\ clip_start' = step_timestamps[step_idx + 1]
              /\ clip_end' = IF step_idx + 2 <= Len(step_timestamps)
                             THEN step_timestamps[step_idx + 2] ELSE IntDuration
              /\ nframes' = clip_end' - clip_start'
        /\ (/\ pc = "nav" /\ running /\ step_delta = "Minus1" /\ step_idx = 0
            /\ clip_start = step_timestamps[1] /\ nframes = clip_end - clip_start
            /\ clip_end = IF 2 <= Len(step_timestamps)
                          THEN step_timestamps[2] ELSE IntDuration) =>
              /\ pc' = "load_audio"
              /\ clip_start' = clip_start
              /\ clip_end' = clip_end
       ]_vars

\* a rewind at index 0 asked for segment 0 again
C7_Witness ==
    /\ pc = "load_audio" /\ mode = "play" /\ step_delta = "Minus1" /\ step_idx = 0
    /\ Len(step_timestamps) = 2

\* C8: with repeat = true play_clip returns only when running = false or the
\* delta is +1 or -1; after a natural end (None) or a restart (0) it starts a
\* new pass of the same clip at its first frame, and step_idx does not change.
C8_RepeatGuards ==
    [][ /\ (pc = "pass_end" /\ repeat) =>
              IF clip_running /\ step_delta \in {"None", "Zero"}
              THEN pc' = "pass_start"
              ELSE pc' = "return" /\ (~clip_running \/ step_delta \in {"Minus1", "Plus1"})
        /\ (pc = "pass_start") =>
              /\ pc' = "frame" /\ i' = 0
              /\ UNCHANGED <<nframes, clip_start, clip_end, step_delta>>
        /\ (pc \notin {"main", "return"}) => step_idx' = step_idx
       ]_vars

\* a second pass began at frame 0 after a restart request
C8_Witness ==
    pc = "frame" /\ i = 0 /\ repeat /\ passes = 2 /\ step_delta = "Zero"

\* C9: once a poll returns running = false, no frame is rendered any more in
\* the pass, play_clip returns running = false, and main starts no pass.
C9_QuitCancels ==
    [][ /\ (pc \in {"render", "paused"} /\ ~clip_running') => pc' = "after_poll"
        /\ (pc = "after_poll" /\ ~clip_running) => (pc' = "pass_end" /\ ~clip_running')
        /\ (pc = "pass_end" /\ ~clip_running) => (pc' = "return" /\ ~clip_running')
        /\ (pc = "return") => (pc' = "nav" /\ running' = clip_running)
        /\ (pc = "nav" /\ ~running) => (pc' = "quit" /\ ~running')
        /\ (pc = "quit") => (pc' = "done" /\ running' = running)
       ]_vars

\* a quit polled inside the paused loop, frames left, ended the session
C9_Witness ==
    pc = "done" /\ ~running /\ ~clip_running /\ was_paused /\ paused /\ i + 1 < nframes

\* C10 (as claimed): a delta that a poll produced stays until the frame loop
\* has stopped; no later poll of the pass replaces it.
C10_DeltaNeverDiscarded ==
    [][ (pc \in {"paused", "after_poll"} /\ step_delta \in NavDeltas) =>
            (step_delta' = step_delta /\ pc' \in {"after_poll", "pass_end"})
      ]_vars

\* C11 (as claimed): every pass, the repeat passes of a clip included, starts
\* with the drift at 0.
C11_DriftZeroAtPassStart == pc = "pass_start" => current_video_delay_ms = 0

\* C12: a session that enters recording mode writes the step list to the table
\* exactly once, when the recording pass has returned (after a natural end or a
\* quit); nothing else writes the table, so a session that does not enter
\* recording mode never writes it.
C12_RecordingPersistedOnce ==
    /\ [](writes <= 1 /\ (mode = "record" => writes = 0))
    /\ [][ /\ (pc = "return" /\ mode = "record") =>
                 /\ writes = 0 /\ writes' = 1
                 /\ table' = set_timestamps_for_video(table, VideoPath, step_timestamps)
                 /\ get_timestamps_for_video(table', VideoPath) = step_timestamps
           /\ ~(pc = "return" /\ mode = "record") =>
                 (writes' = writes /\ table' = table)
           /\ (mode' = "record") => (mode = "record" \/ pc = "main")
         ]_vars

\* a recording ended by a quit after one mark was saved
C12_Witness ==
    /\ pc = "done" /\ writes = 1 /\ ~running /\ Len(step_timestamps) = 1
    /\ get_timestamps_for_video(table, VideoPath) = step_timestamps

\* C13: in playback mode no poll and no step of a pass changes the step list.
C13_PlaybackKeepsStepList ==
    [][mode = "play" => step_timestamps' = step_timestamps]_vars

\* a playback poll that got an advance request (SPACE/RETURN are among its keys)
C13_Witness ==
    /\ mode = "play" /\ pc = "after_poll" /\ step_delta = "Plus1"
    /\ Len(step_timestamps) = 1 /\ writes = 0

\* C14 (as claimed): when the audio of a clip cannot be written or loaded,
\* the error ends the session with pygame released (pygame.quit was reached).
C14_AudioFailureReleases == pc = "raised" => ~pygame_up

\* C15: when subclip rejects the segment, main runs no pass for it, sets
\* running = false, keeps step_idx, leaves the loop and reaches pygame.quit.
C15_InvalidRangeAbsorbed ==
    [][ /\ (/\ pc = "nav"
            /\ running /\ step_idx < Len(step_timestamps)
            /\ InvalidRange(step_timestamps[step_idx + 1],
                            IF step_idx + 2 <= Len(step_timestamps)
                            THEN step_timestamps[step_idx + 2] ELSE IntDuration)) =>
              /\ pc' = "quit"
              /\ ~running'
              /\ step_idx' = step_idx
              /\ UNCHANGED <<passes, screen, music, nframes>>
        /\ (pc = "quit") =>
              /\ pc' = "done"
              /\ ~pygame_up'
              /\ UNCHANGED <<running, step_idx, passes, screen>>
      ]_vars

\* an advance reached a segment that subclip rejects; the session ended there
C15_Witness ==
    /\ pc = "done" /\ ~running /\ clip_running /\ ~pygame_up
    /\ step_idx = 1 /\ Len(step_timestamps) = 2
    /\ clip_start = step_timestamps[2] /\ InvalidRange(clip_start, clip_end)

\* C16: get of a path with no row is the empty list; after set(id, L), get(id)
\* is L, also when a row for id was there before, and get of any other id is
\* what it was.
C16_StoreRoundTrip ==
    /\ [](\A p \in Paths :
            (~\E r \in table : r.path = p) => get_timestamps_for_video(table, p) = <<>>)
    /\ [](set_path \in Paths => get_timestamps_for_video(table, set_path) = set_list)
    /\ [](\A r1 \in table, r2 \in table : r1.path = r2.path => r1 = r2)
    /\ [][\A q \in Paths \ {set_path'} :
            get_timestamps_for_video(table', q) = get_timestamps_for_video(table, q)]_vars

\* a second set on the same path replaced a list of two steps, the other path
\* keeps its own list
C16_Witness ==
    /\ pc = "store" /\ set_path = VideoPath /\ set_list = <<1>>
    /\ get_timestamps_for_video(table, VideoPath) = <<1>>
    /\ get_timestamps_for_video(table, OtherPath) = <<0, 2>>

\* C17: the frame at hand is dropped exactly when the drift is above one frame
\* interval; the drop renders nothing, polls nothing, takes no tick, leaves
\* paused / running / step_delta alone and lowers the drift by exactly one
\* interval, to a value above 0.
C17_DropStep ==
    [][ (pc = "frame" /\ i < nframes) =>
          IF current_video_delay_ms > ms_per_frame
          THEN /\ pc' = "frame"
               /\ i' = i + 1
               /\ current_video_delay_ms' = current_video_delay_ms - ms_per_frame
               /\ current_video_delay_ms' > 0
               /\ UNCHANGED <<screen, paused, was_paused, clip_running, step_delta,
                              step_timestamps, quit_queued, music, waited>>
          ELSE /\ pc' \in {"wait", "render"}
               /\ i' = i
               /\ current_video_delay_ms' = current_video_delay_ms
      ]_vars

\* the frame after a rendered one was dropped
C17_Witness ==
    pc = "frame" /\ screen >= 0 /\ acc.drops = 1 /\ i = screen + 2

\* C18: in the paused loop nothing is rendered and the frame index and the
\* drift stay; the music is paused when the loop is entered and plays again
\* when the engine is back in the frame loop.
C18_PauseDriftNeutral ==
    /\ [](pc = "paused" => (music = "paused" /\ was_paused))
    /\ [](pc \in {"frame", "wait", "render"} => music = "playing")
    /\ [][ /\ (pc = "paused") =>
                 UNCHANGED <<screen, i, current_video_delay_ms, acc, waited>>
           /\ (pc = "after_poll" /\ was_paused) => music' = "playing"
         ]_vars

\* after a pause the music plays again and the next frame is at hand
C18_Witness ==
    /\ pc = "frame" /\ was_paused /\ ~paused /\ music = "playing"
    /\ i = screen + 1 /\ i < nframes

\* C19: after recording, the while loop of playback is entered at index 0 with
\* the recorded list exactly when recording returned running = true and the
\* list is not empty; otherwise main goes to pygame.quit with no pass.
C19_RecordingFallsThrough ==
    [][ /\ (pc = "return" /\ mode = "record") =>
              /\ pc' = "nav" /\ step_idx' = 0 /\ running' = clip_running
              /\ step_timestamps' = step_timestamps
        /\ (pc = "nav" /\ writes = 1 /\ ~repeat) =>
              IF running /\ Len(step_timestamps) >= 1
              THEN /\ step_idx = 0
                   /\ clip_start' = step_timestamps[1]
                   /\ pc' \in {"load_audio", "quit"}
                   /\ pc' = "load_audio" => (repeat' /\ nframes' = clip_end' - clip_start')
              ELSE /\ pc' = "quit"
                   /\ UNCHANGED <<passes, screen, music, repeat, nframes,
                                  clip_start, clip_end>>
      ]_vars

\* the first playback clip is requested for a list of two recorded steps
C19_Witness ==
    /\ pc = "load_audio" /\ mode = "play" /\ writes = 1 /\ step_idx = 0 /\ passes = 1
    /\ Len(step_timestamps) = 2

\* C20 (as claimed): a queued QUIT event leads to the end of the session through
\* pygame.quit.
C20_QueuedQuitReleases == quit_queued ~> (pc = "done")

TypeOK ==
    /\ pc \in {"main", "load_audio", "pass_start", "frame", "wait", "render",
               "paused", "after_poll", "pass_end", "return", "nav", "quit",
               "done", "raised", "store"}
    /\ mode \in {"none", "record", "play"}
    /\ step_delta \in {"Unbound", "None", "Minus1", "Zero", "Plus1"}
    /\ Len(step_timestamps) <= MaxSteps
    /\ i \in 0..VideoFrames
====
